---- MODULE Spec2Model ----
(***************************************************************************)
(* Verification model of the datasource compiler core:                     *)
(*   - ChunkingRouterMS (chunk_file, _recursive_split, _hard_split)        *)
(*   - SearchEngineMS   (search, _keyword_search_only, RRF fusion)         *)
(*   - CartridgeServiceMS / RefineryServiceMS (store, refine, validate)    *)
(* Texts are sequences of one-character strings.                           *)
(***************************************************************************)
EXTENDS Integers, Sequences, FiniteSets, TLC

VARIABLES
    call,       \* the last call made: [op, ...its arguments]
    ret,        \* its outcome: [outcome, chunks] or [outcome, rows]
    files,      \* cartridge: virtual path -> file entry
    chunks,     \* cartridge: virtual path -> the chunks stored for the entry
    vectors,    \* cartridge: virtual path -> ordinals of its chunks with a vector
    worker      \* the Refinery's background worker: its position (pc), the
                \* entries still to take (queue), the entry in hand (current),
                \* its chunks (built), the batch it fetched and the entries it
                \* has finished (done)

vars == <<call, ret, files, chunks, vectors, worker>>

storeVars == <<files, chunks, vectors, worker>>

----------------------------------------------------------------------------
(* Bounds of the model *)

MaxLen == 5          \* longest input text, in characters
MaxSize == 4         \* largest max_size / chunk_size
MaxOverlap == 2      \* largest overlap
NChunks == 3         \* rows of knowledge_chunks in the searched cartridge
MaxLimit == 3        \* largest limit passed to search
RefineMaxSize == 3   \* max_size the Refinery chunks with
MaxBatch == 2        \* largest batch_size passed to process_pending
PadSlack == 1        \* how far the padding of a content goes past a window edge
MaxItems == 3        \* longest list passed to process_parallel

----------------------------------------------------------------------------
(* Texts *)

Chars == {"a", " ", "\n", "."}

Texts == UNION {[1..n -> Chars] : n \in 0..MaxLen}

Min(a, b) == IF a < b THEN a ELSE b

\* Python's \s, over the characters of the model
Whitespace == {" ", "\n"}

\* the lookbehind class [.?!] of the sentence separator
SentenceEnd == {".", "?", "!"}

\* self.separators = ["\n\n", "\n", "(?<=[.?!])\s+", " ", ""]
SentenceRegex == <<"(", "?", "<", "=", "[", ".", "?", "!", "]", ")", "\\", "s", "+">>

separators == << <<"\n", "\n">>, <<"\n">>, SentenceRegex, <<" ">>, <<>> >>

\* x in s, for a character x and a string s
Contains(s, x) == \E i \in 1..Len(s) : s[i] = x

\* text[start:end] with 0 <= start (Python slice, 0-based, end exclusive)
Slice(text, start, end) == SubSeq(text, start + 1, Min(end, Len(text)))

\* text.split(sep) for a non-empty sep: leftmost non-overlapping occurrences
RECURSIVE SplitFrom(_, _, _, _)
SplitFrom(text, sep, i, start) ==
    IF i + Len(sep) - 1 > Len(text)
    THEN << SubSeq(text, start, Len(text)) >>
    ELSE IF SubSeq(text, i, i + Len(sep) - 1) = sep
         THEN << SubSeq(text, start, i - 1) >>
              \o SplitFrom(text, sep, i + Len(sep), i + Len(sep))
         ELSE SplitFrom(text, sep, i + 1, start)

StrSplit(text, sep) == SplitFrom(text, sep, 1, 1)

\* the end of the whitespace run that starts at i
RECURSIVE RunEnd(_, _)
RunEnd(text, i) ==
    IF i < Len(text) /\ text[i + 1] \in Whitespace THEN RunEnd(text, i + 1) ELSE i

\* re.split("(?<=[.?!])\s+", text): cut at each whitespace run that follows . ? or !
RECURSIVE ReSplitFrom(_, _, _)
ReSplitFrom(text, i, start) ==
    IF i > Len(text)
    THEN << SubSeq(text, start, Len(text)) >>
    ELSE IF i > 1 /\ text[i - 1] \in SentenceEnd /\ text[i] \in Whitespace
         THEN << SubSeq(text, start, i - 1) >>
              \o ReSplitFrom(text, RunEnd(text, i) + 1, RunEnd(text, i) + 1)
         ELSE ReSplitFrom(text, i + 1, start)

ReSplit(text) == ReSplitFrom(text, 1, 1)

\* current_sep.join(current_doc)
RECURSIVE Join(_, _)
Join(sep, docs) ==
    IF Len(docs) = 0 THEN <<>>
    ELSE IF Len(docs) = 1 THEN docs[1]
    ELSE docs[1] \o sep \o Join(sep, Tail(docs))

----------------------------------------------------------------------------
(* Outcomes of a call: a returned list, a raised exception, or no return *)

Returned(list) == [outcome |-> "returned", chunks |-> list]

Raised(exc) == [outcome |-> exc, chunks |-> <<>>]

Diverges == [outcome |-> "diverges", chunks |-> <<>>]

----------------------------------------------------------------------------
(* ChunkingRouterMS._hard_split *)

\* the window loop from position start
RECURSIVE HardSplitFrom(_, _, _, _)
HardSplitFrom(text, chunk_size, overlap, start) ==
    IF start < Len(text)
    THEN << Slice(text, start, start + chunk_size) >>
         \o HardSplitFrom(text, chunk_size, overlap, start + chunk_size - overlap)
    ELSE <<>>

\* while start < len(text) never ends when start does not advance
HardSplitStep(chunk_size, overlap) == chunk_size - overlap

_hard_split(text, chunk_size, overlap) ==
    IF Len(text) > 0 /\ HardSplitStep(chunk_size, overlap) <= 0
    THEN Diverges
    ELSE Returned(HardSplitFrom(text, chunk_size, overlap, 0))

----------------------------------------------------------------------------
(* ChunkingRouterMS._recursive_split *)

\* len(current_sep) > 1 and "(" in current_sep
IsRegexSep(current_sep) == Len(current_sep) > 1 /\ Contains(current_sep, "(")

\* a piece one character over max_size is still packed
TooBigOffByOne(split, max_size) == Len(split) > max_size + 1

\* if len(split) > max_size: recurse deeper on it
TooBig(split, max_size) == Len(split) > max_size

\* if current_length + len(split) + len(current_sep) > max_size: flush
Overflows(current_length, split, current_sep, max_size) ==
    current_length + Len(split) + Len(current_sep) > max_size

RECURSIVE _recursive_split(_, _, _, _)
RECURSIVE PackSplits(_, _, _, _, _, _, _, _, _)

\* the for loop over splits, from index k, with the loop's locals
PackSplits(splits, k, final_chunks, current_doc, current_length, current_sep, next_separators, max_size, overlap) ==
    IF k > Len(splits)
    THEN \* Flush remaining
         Returned(IF Len(current_doc) > 0
                  THEN Append(final_chunks, Join(current_sep, current_doc))
                  ELSE final_chunks)
    ELSE LET split == splits[k] IN
         IF Len(split) = 0
         THEN PackSplits(splits, k + 1, final_chunks, current_doc, current_length,
                         current_sep, next_separators, max_size, overlap)
         ELSE IF TooBig(split, max_size)
         THEN LET flushed == IF Len(current_doc) > 0
                             THEN Append(final_chunks, Join(current_sep, current_doc))
                             ELSE final_chunks
                  sub == _recursive_split(split, next_separators, max_size, overlap)
              IN  IF sub.outcome # "returned"
                  THEN sub
                  ELSE PackSplits(splits, k + 1, flushed \o sub.chunks, <<>>, 0,
                                  current_sep, next_separators, max_size, overlap)
         ELSE IF Overflows(current_length, split, current_sep, max_size)
         THEN PackSplits(splits, k + 1,
                         Append(final_chunks, Join(current_sep, current_doc)),
                         << split >>, Len(split),
                         current_sep, next_separators, max_size, overlap)
         ELSE PackSplits(splits, k + 1, final_chunks,
                         Append(current_doc, split),
                         current_length + Len(split) + Len(current_sep),
                         current_sep, next_separators, max_size, overlap)

_recursive_split(text, seps, max_size, overlap) ==
    IF Len(text) <= max_size
    THEN Returned(<< text >>)
    ELSE IF Len(seps) = 0
    THEN _hard_split(text, max_size, overlap)
    ELSE LET current_sep == seps[1]
             next_separators == Tail(seps)
         IN  IF IsRegexSep(current_sep)
             THEN PackSplits(ReSplit(text), 1, <<>>, <<>>, 0,
                             current_sep, next_separators, max_size, overlap)
             ELSE IF Len(current_sep) = 0
             THEN Raised("ValueError")     \* str.split(""): empty separator
             ELSE PackSplits(StrSplit(text, current_sep), 1, <<>>, <<>>, 0,
                             current_sep, next_separators, max_size, overlap)

----------------------------------------------------------------------------
(* ChunkingRouterMS.chunk_file *)

\* the lines of a text, text.split("\n")
Lines(text) == StrSplit(text, <<"\n">>)

\* Stand-in for the parse of a Python source: a text with a "." does not parse.
Parses(text) == ~Contains(text, ".")

\* the blocks of lines, from line k: every non-empty line is a top-level block
RECURSIVE BlocksFrom(_, _)
BlocksFrom(lines, k) ==
    IF k > Len(lines) THEN <<>>
    ELSE IF Len(lines[k]) = 0 THEN BlocksFrom(lines, k + 1)
    ELSE << [name |-> k, type |-> "block", content |-> lines[k],
             start_line |-> k, end_line |-> k] >> \o BlocksFrom(lines, k + 1)

\* PythonChunkerMS.chunk: one chunk per top-level block with its line range,
\* the whole file as one chunk when the parse fails
PythonChunk(text) ==
    IF Parses(text)
    THEN BlocksFrom(Lines(text), 1)
    ELSE << [name |-> 0, type |-> "file", content |-> text,
             start_line |-> 1, end_line |-> Len(Lines(text))] >>

\* prose chunks given their index as line range
WrapProseIndexAsLine(raw_chunks) ==
    [i \in 1..Len(raw_chunks) |->
        [name |-> i - 1, type |-> "text", content |-> raw_chunks[i],
         start_line |-> i, end_line |-> i]]

\* CodeChunk(name=f"prose_chunk_{i}", type="text", content=c, start_line=0, end_line=0)
WrapProse(raw_chunks) ==
    [i \in 1..Len(raw_chunks) |->
        [name |-> i - 1, type |-> "text", content |-> raw_chunks[i],
         start_line |-> 0, end_line |-> 0]]

chunk_file(text, filename, max_size, overlap) ==
    IF filename = "py"
    THEN Returned(PythonChunk(text))
    ELSE LET raw == _recursive_split(text, separators, max_size, overlap)
         IN  IF raw.outcome = "returned"
             THEN Returned(WrapProse(raw.chunks))
             ELSE raw

----------------------------------------------------------------------------
(* The chunker called on bounded inputs *)

Idle == [op |-> "idle"]

\* the cartridge variables, in the specifications that do not use them
StoreUnused ==
    /\ files = <<>>
    /\ chunks = <<>>
    /\ vectors = <<>>
    /\ worker = Idle

InitChunk ==
    /\ call = Idle
    /\ ret = Idle
    /\ StoreUnused

ChunkFile ==
    /\ call = Idle
    /\ UNCHANGED storeVars
    /\ \E text \in Texts, filename \in {"py", "md"},
          max_size \in 1..MaxSize, overlap \in 0..MaxOverlap :
          /\ call' = [op |-> "chunk_file", text |-> text, filename |-> filename,
                      seps |-> separators, max_size |-> max_size, overlap |-> overlap]
          /\ ret' = chunk_file(text, filename, max_size, overlap)

\* The separator lists _recursive_split is called with: the router's list, the
\* tiers above its empty last separator, the word tier alone, and none.
SepLists == {separators, SubSeq(separators, 1, 4), SubSeq(separators, 4, 4), <<>>}

RecursiveSplit ==
    /\ call = Idle
    /\ UNCHANGED storeVars
    /\ \E text \in Texts, seps \in SepLists,
          max_size \in 1..MaxSize, overlap \in 0..MaxOverlap :
          /\ call' = [op |-> "_recursive_split", text |-> text, filename |-> "",
                      seps |-> seps, max_size |-> max_size, overlap |-> overlap]
          /\ ret' = _recursive_split(text, seps, max_size, overlap)

HardSplit ==
    /\ call = Idle
    /\ UNCHANGED storeVars
    /\ \E text \in Texts, chunk_size \in 1..MaxSize, overlap \in 0..MaxOverlap :
          /\ call' = [op |-> "_hard_split", text |-> text, filename |-> "",
                      seps |-> <<>>, max_size |-> chunk_size, overlap |-> overlap]
          /\ ret' = _hard_split(text, chunk_size, overlap)

NextChunk == ChunkFile \/ RecursiveSplit \/ HardSplit

SpecChunk == InitChunk /\ [][NextChunk]_vars

----------------------------------------------------------------------------
(* SearchEngineMS *)

\* the cartridge's knowledge_chunks.id values
ChunkIds == 1..NChunks

\* ranked lists: sequences of distinct chunk ids, best first
RankedLists ==
    {s \in UNION {[1..n -> ChunkIds] : n \in 0..NChunks} :
        \A i, j \in 1..Len(s) : i # j => s[i] # s[j]}

\* "AND k = 50" / "LIMIT 50": the retrieval width of both lists
TopK == 50

\* the RRF damping constant of "1.0 / (60 + v.rank)"
RrfK == 60

Top(list, n) == SubSeq(list, 1, Min(n, Len(list)))

\* row_number() OVER (ORDER BY ...): the 1-based rank of id in list, 0 when absent
\* (the LEFT JOIN's NULL)
RankIn(list, id) ==
    IF \E i \in 1..Len(list) : list[i] = id
    THEN CHOOSE i \in 1..Len(list) : list[i] = id
    ELSE 0

\* Scores are exact fractions <<numerator, denominator>>.

\* the COALESCE put around the rank: an absent list adds 1/60
RrfTermCoalesceRank(rank) == <<1, RrfK + rank>>

\* COALESCE(1.0 / (60 + rank), 0.0)
RrfTerm(rank) == IF rank = 0 THEN <<0, 1>> ELSE <<1, RrfK + rank>>

FracAdd(x, y) == <<x[1] * y[2] + y[1] * x[2], x[2] * y[2]>>

FracLess(x, y) == x[1] * y[2] < y[1] * x[2]

FracEq(x, y) == x[1] * y[2] = y[1] * x[2]

\* rrf_score of the row of chunk id
RrfScore(v, f, id) == FracAdd(RrfTerm(RankIn(v, id)), RrfTerm(RankIn(f, id)))

\* round(score, 4), in units of 0.0001 (Python rounds an exact half to even)
Round4(x) ==
    LET q == (10000 * x[1]) \div x[2]
        r == (10000 * x[1]) % x[2]
    IN  IF 2 * r < x[2] THEN q
        ELSE IF 2 * r > x[2] THEN q + 1
        ELSE IF q % 2 = 0 THEN q ELSE q + 1

\* WHERE v.rowid IS NOT NULL OR f.rowid IS NOT NULL
Candidates(v, f) == {id \in ChunkIds : RankIn(v, id) # 0 \/ RankIn(f, id) # 0}

\* the joined rows in any order, as without an ORDER BY
RowOrdersUnsorted(v, f) ==
    {s \in RankedLists : {s[i] : i \in 1..Len(s)} = Candidates(v, f)}

\* ORDER BY rrf_score DESC: the row orders SQL allows. There is no second sort
\* key, so rows with equal rrf_score may come in any order.
RowOrders(v, f) ==
    {s \in RankedLists :
        /\ {s[i] : i \in 1..Len(s)} = Candidates(v, f)
        /\ \A i \in 1..(Len(s) - 1) :
              ~FracLess(RrfScore(v, f, s[i]), RrfScore(v, f, s[i + 1]))}

Rows(rows) == [outcome |-> "returned", rows |-> rows]

\* _get_query_embedding: the vector, or None on any exception, a status other
\* than 200, or an answer without an embedding
EmbedReplies == {"vector", "unreachable", "timeout", "http_error", "no_embedding"}

_get_query_embedding(reply) == IF reply = "vector" THEN "vector" ELSE "None"

\* _keyword_search_only: the cursor.execute is outside any try
_keyword_search_only(fts_matches, fts_error, limit) ==
    IF fts_error
    THEN [outcome |-> "OperationalError", rows |-> <<>>]
    ELSE Rows([i \in 1..Min(limit, Len(fts_matches)) |->
                  [id |-> fts_matches[i], score |-> 0]])

\* the hybrid SELECT, its rows in the order `order`, then LIMIT ?
HybridRows(v, f, order, limit) ==
    [i \in 1..Min(limit, Len(order)) |->
        [id |-> order[i], score |-> Round4(RrfScore(v, f, order[i]))]]

\* search(db_path, query, limit)
\*   db_exists   os.path.exists(db_path)
\*   reply       what the embedder answers for the query
\*   vec_order   the vector rows by distance; fts_order the FTS rows by rank
\*   vec_error   the vec0 MATCH raises sqlite3.OperationalError (sqlite-vec not loaded)
\*   fts_error   the FTS MATCH raises sqlite3.OperationalError (no documents_fts
\*               table, or a query with an unbalanced double quote)
\*   order       the order SQL returns the joined rows in
search(db_exists, reply, vec_order, fts_order, vec_error, fts_error, limit, order) ==
    IF ~db_exists
    THEN Rows(<<>>)
    ELSE IF _get_query_embedding(reply) = "None"
    THEN _keyword_search_only(Top(fts_order, TopK), fts_error, limit)
    ELSE IF vec_error \/ fts_error
    THEN Rows(<<>>)      \* except sqlite3.OperationalError: return []
    ELSE Rows(HybridRows(Top(vec_order, TopK), Top(fts_order, TopK), order, limit))

InitSearch ==
    /\ call = Idle
    /\ ret = Idle
    /\ StoreUnused

Search ==
    /\ call = Idle
    /\ UNCHANGED storeVars
    /\ \E vec_order \in RankedLists, fts_order \in RankedLists :
       \E order \in RowOrders(Top(vec_order, TopK), Top(fts_order, TopK)) :
       \E db_exists \in BOOLEAN, reply \in EmbedReplies,
          vec_error \in BOOLEAN, fts_error \in BOOLEAN, limit \in 0..MaxLimit :
             /\ call' = [op |-> "search", db_exists |-> db_exists, reply |-> reply,
                         vec_matches |-> Top(vec_order, TopK),
                         fts_matches |-> Top(fts_order, TopK),
                         vec_error |-> vec_error, fts_error |-> fts_error,
                         limit |-> limit]
             /\ ret' = search(db_exists, reply, vec_order, fts_order,
                              vec_error, fts_error, limit, order)

NextSearch == Search

SpecSearch == InitSearch /\ [][NextSearch]_vars

----------------------------------------------------------------------------
(* CartridgeServiceMS: the cartridge's tables and its write path *)

\* the virtual paths of the model, in list order
VPaths == <<"a.md", "b.py">>

PathSet == {VPaths[i] : i \in 1..Len(VPaths)}

\* the extension the router dispatches on
Extension(vfs_path) == IF vfs_path = "b.py" THEN "py" ELSE "md"

\* a word no separator can cut, one character longer than the chunk size
LongWord == [i \in 1..(RefineMaxSize + 1) |-> "a"]

OneLine == <<"a", " ", "a">>

TwoLines == <<"a", " ", "a", "\n", "a", " ", "a">>

\* what a commit carries: extracted text, or a binary payload
TextContents == {[kind |-> "text", text |-> t] : t \in {OneLine, TwoLines, LongWord}}

Blob == [kind |-> "blob", text |-> <<>>]

Contents == TextContents \cup {Blob}

\* the content-derived hash: equal exactly for equal content
Hash(content) == <<"sha", content.kind, content.text>>

NoEntry == [status |-> "ABSENT"]

Statuses == {"RAW", "REFINED", "SKIPPED", "ERROR"}

NewEntry(content) ==
    [status |-> "RAW", content |-> content, hash |-> Hash(content)]

\* a re-commit that resets the status whatever the hash
commit_entry_always_raw(entry, content) ==
    IF entry = NoEntry THEN NewEntry(content)
    ELSE IF entry.content.kind # content.kind THEN entry
    ELSE NewEntry(content)

\* commit_entry(virtual_path, content|blob, mime), on the entry stored for the
\* path: created RAW; content updated and status reset to RAW only if the hash
\* changed; a conflicting content type is rejected
commit_entry(entry, content) ==
    IF entry = NoEntry THEN NewEntry(content)
    ELSE IF entry.content.kind # content.kind THEN entry
    ELSE IF Hash(content) = entry.hash THEN entry
    ELSE NewEntry(content)

CommitOutcome(entry, content) ==
    IF entry = NoEntry THEN "created"
    ELSE IF entry.content.kind # content.kind THEN "TypeConflict"
    ELSE IF Hash(content) = entry.hash THEN "unchanged"
    ELSE "updated"

\* list_pending(status, limit): the paths with that status, in order, at most limit
RECURSIVE PendingFrom(_, _, _)
PendingFrom(status, limit, k) ==
    IF k > Len(VPaths) \/ limit = 0 THEN <<>>
    ELSE IF files[VPaths[k]].status = status
         THEN << VPaths[k] >> \o PendingFrom(status, limit - 1, k + 1)
         ELSE PendingFrom(status, limit, k + 1)

\* a list_pending that also returns the entries that failed
RECURSIVE PendingOrFailedFrom(_, _, _)
PendingOrFailedFrom(status, limit, k) ==
    IF k > Len(VPaths) \/ limit = 0 THEN <<>>
    ELSE IF files[VPaths[k]].status \in {status, "ERROR"}
         THEN << VPaths[k] >> \o PendingOrFailedFrom(status, limit - 1, k + 1)
         ELSE PendingOrFailedFrom(status, limit, k + 1)

list_pending_or_failed(status, limit) == PendingOrFailedFrom(status, limit, 1)

\* a list_pending that ignores its limit
list_pending_unlimited(status, limit) == PendingFrom(status, Len(VPaths), 1)

list_pending(status, limit) == PendingFrom(status, limit, 1)

\* a write cut short after its first chunk
write_chunks_partially(old_chunks, new_chunks) ==
    IF Len(new_chunks) > 1 THEN SubSeq(new_chunks, 1, 1) ELSE new_chunks

\* a write that adds the new chunks to the ones already stored
write_chunks_appending(old_chunks, new_chunks) == old_chunks \o new_chunks

\* write_chunks_and_vectors(entry_id, [Chunk], [Vector]), the chunk table side:
\* one transaction replaces all chunks of the entry
write_chunks_and_vectors(old_chunks, new_chunks) == new_chunks

\* the vector table side of the same transaction: one vector per embedded chunk
write_vectors(old_vectors, new_chunks) ==
    {i \in 1..Len(new_chunks) : ~new_chunks[i].embedding_failed}

\* an update_status that leaves the entry as it is
update_status_keeping(entry, status) == entry

\* update_status(entry_id, status)
update_status(entry, status) == [entry EXCEPT !.status = status]

\* validate(): the vectors whose chunk does not exist
OrphanedVectors(vfs_path) ==
    {i \in vectors[vfs_path] : i \notin 1..Len(chunks[vfs_path])}

\* number of lines of the entry's current content
LineCount(entry) ==
    IF entry = NoEntry \/ entry.content.kind = "blob" THEN 0
    ELSE Len(Lines(entry.content.text))

\* validate(): the chunks whose range does not fit the parent's current content
OutOfRangeChunks(vfs_path) ==
    {i \in 1..Len(chunks[vfs_path]) :
        \/ chunks[vfs_path][i].start_line > chunks[vfs_path][i].end_line
        \/ chunks[vfs_path][i].end_line > LineCount(files[vfs_path])}

validate ==
    [orphaned_vectors |->
         UNION {{<<p, i>> : i \in OrphanedVectors(p)} : p \in PathSet},
     out_of_range_chunks |->
         UNION {{<<p, i>> : i \in OutOfRangeChunks(p)} : p \in PathSet}]

----------------------------------------------------------------------------
(* RefineryServiceMS: the worker that drains RAW entries *)

\* overlap the Refinery chunks with (chunk_file's default scaled to the model)
RefineOverlap == 1

WorkerIdle == [pc |-> "idle", queue |-> <<>>, current |-> "", built |-> <<>>,
               next |-> 1, cancel |-> FALSE, batch |-> <<>>, done |-> <<>>]

\* the chunks of a text entry as the Chunk Router cuts them
RoutedChunks(vfs_path, content) ==
    chunk_file(content.text, Extension(vfs_path), RefineMaxSize, RefineOverlap)

\* a helper that reports a failed request as a success
get_embedding_hiding_failure(reply) == "vector"

\* NeuralServiceMS.get_embedding(text): the embedding, or None when the request
\* raises (unreachable, timeout), answers another status than 200, or answers
\* without an embedding; it never raises
get_embedding(reply) == IF reply = "vector" THEN "vector" ELSE "None"

\* a routed chunk as a row of the chunk table, not embedded yet
ChunkRows(list) ==
    [i \in 1..Len(list) |->
        [ordinal |-> i, type |-> list[i].type, content |-> list[i].content,
         start_line |-> list[i].start_line, end_line |-> list[i].end_line,
         embedding_failed |-> TRUE]]

InitStore ==
    /\ call = Idle
    /\ ret = Idle
    /\ files = [p \in PathSet |-> NoEntry]
    /\ chunks = [p \in PathSet |-> <<>>]
    /\ vectors = [p \in PathSet |-> {}]
    /\ worker = WorkerIdle

\* a writer slot that is never taken
WriterSlotAlwaysFree == TRUE

\* the cartridge's one writer slot is free: no Refinery batch is running
WriterSlotFree == worker.pc = "idle"

\* the operator commits one approved path; the Refinery is not running
CommitEntry ==
    /\ WriterSlotFree
    /\ \E p \in PathSet, content \in Contents :
          /\ call' = [op |-> "commit_entry", vfs_path |-> p, content |-> content]
          /\ ret' = [outcome |-> CommitOutcome(files[p], content)]
          /\ files' = [files EXCEPT ![p] = commit_entry(files[p], content)]
    /\ UNCHANGED <<chunks, vectors, worker>>

\* process_pending(batch_size) starts: the batch is the RAW entries, at most batch_size
ProcessPending ==
    /\ worker.pc = "idle"
    /\ \E batch_size \in 1..MaxBatch :
          /\ call' = [op |-> "process_pending", batch_size |-> batch_size]
          /\ worker' = [WorkerIdle EXCEPT !.pc = "fetch",
                                          !.queue = list_pending("RAW", batch_size),
                                          !.batch = list_pending("RAW", batch_size)]
    /\ ret' = Idle
    /\ UNCHANGED <<files, chunks, vectors>>

\* between entries: stop on cancel or at the end of the batch, else take the next
FetchNext ==
    /\ worker.pc = "fetch"
    /\ IF worker.cancel \/ Len(worker.queue) = 0
       THEN /\ worker' = WorkerIdle
            /\ ret' = [outcome |-> IF worker.cancel THEN "cancelled" ELSE "completed"]
       ELSE /\ worker' = [worker EXCEPT !.pc = "chunk",
                                        !.current = Head(worker.queue),
                                        !.queue = Tail(worker.queue),
                                        !.built = <<>>, !.next = 1]
            /\ ret' = ret
    /\ UNCHANGED <<call, files, chunks, vectors>>

\* run the Chunk Router on the entry; a binary entry is skipped, a chunker that
\* raises leaves the entry ERROR and the batch goes on
ChunkEntry ==
    /\ worker.pc = "chunk"
    /\ LET p == worker.current
           entry == files[p]
       IN  IF entry.content.kind = "blob"
           THEN /\ files' = [files EXCEPT ![p] = update_status(entry, "SKIPPED")]
                /\ worker' = [worker EXCEPT !.pc = "fetch",
                                            !.done = Append(worker.done, p)]
           ELSE IF RoutedChunks(p, entry.content).outcome # "returned"
           THEN /\ files' = [files EXCEPT ![p] = update_status(entry, "ERROR")]
                /\ worker' = [worker EXCEPT !.pc = "fetch",
                                            !.done = Append(worker.done, p)]
           ELSE /\ files' = files
                /\ worker' = [worker EXCEPT
                                 !.pc = "embed",
                                 !.built = ChunkRows(RoutedChunks(p, entry.content).chunks)]
    /\ UNCHANGED <<call, ret, chunks, vectors>>

\* one embedding request per chunk: it succeeds, or fails or times out and the
\* chunk is flagged; cancellation is checked between chunks and drops the entry's
\* unwritten work
EmbedChunk ==
    /\ worker.pc = "embed"
    /\ IF worker.cancel
       THEN worker' = [worker EXCEPT !.pc = "fetch", !.built = <<>>, !.next = 1]
       ELSE IF worker.next > Len(worker.built)
       THEN worker' = [worker EXCEPT !.pc = "write"]
       ELSE \E reply \in EmbedReplies :
               worker' = [worker EXCEPT
                             !.built[worker.next].embedding_failed =
                                 (get_embedding(reply) = "None"),
                             !.next = worker.next + 1]
    /\ UNCHANGED <<call, ret, files, chunks, vectors>>

\* write_chunks_and_vectors for the entry, one transaction
WriteChunks ==
    /\ worker.pc = "write"
    /\ chunks' = [chunks EXCEPT ![worker.current] =
                     write_chunks_and_vectors(chunks[worker.current], worker.built)]
    /\ vectors' = [vectors EXCEPT ![worker.current] =
                     write_vectors(vectors[worker.current], worker.built)]
    /\ worker' = [worker EXCEPT !.pc = "status"]
    /\ UNCHANGED <<call, ret, files>>

\* update_status(entry_id, REFINED)
MarkRefined ==
    /\ worker.pc = "status"
    /\ files' = [files EXCEPT ![worker.current] =
                    update_status(files[worker.current], "REFINED")]
    /\ worker' = [worker EXCEPT !.pc = "fetch", !.built = <<>>, !.next = 1,
                                !.done = Append(worker.done, worker.current)]
    /\ UNCHANGED <<call, ret, chunks, vectors>>

\* the operator raises the cancellation flag while a batch runs
Cancel ==
    /\ worker.pc # "idle"
    /\ ~worker.cancel
    /\ worker' = [worker EXCEPT !.cancel = TRUE]
    /\ UNCHANGED <<call, ret, files, chunks, vectors>>

\* the process is interrupted: the worker and its unwritten work are gone
Interrupt ==
    /\ worker.pc # "idle"
    /\ worker' = WorkerIdle
    /\ ret' = [outcome |-> "interrupted"]
    /\ UNCHANGED <<call, files, chunks, vectors>>

\* the words a reader searches for
Keywords == {<<"a">>, <<"b">>}

\* the words of a text as the full-text index sees them: its maximal runs of
\* characters that are neither whitespace nor punctuation
RECURSIVE TokensFrom(_, _, _)
TokensFrom(text, i, word) ==
    IF i > Len(text) THEN (IF word = <<>> THEN <<>> ELSE << word >>)
    ELSE IF text[i] \in Whitespace \cup SentenceEnd
         THEN (IF word = <<>> THEN <<>> ELSE << word >>) \o TokensFrom(text, i + 1, <<>>)
         ELSE TokensFrom(text, i + 1, Append(word, text[i]))

Tokens(text) == TokensFrom(text, 1, <<>>)

\* the text holds the keyword as one of its words
HasWord(text, keyword) ==
    LET words == Tokens(text)
    IN  \E k \in 1..Len(words) : words[k] = keyword

\* a lexical search that only sees the chunks that have a vector
lexical_search_indexed_only(keyword) ==
    UNION {{<<p, i>> : i \in {j \in vectors[p] :
                                 /\ j <= Len(chunks[p])
                                 /\ HasWord(chunks[p][j].content, keyword)}} :
           p \in PathSet}

\* the lexical side of search: the stored chunks whose text holds the keyword,
\* with or without a vector
lexical_search(keyword) ==
    UNION {{<<p, i>> : i \in {j \in 1..Len(chunks[p]) :
                                 HasWord(chunks[p][j].content, keyword)}} :
           p \in PathSet}

\* a reader searches the cartridge, whatever the writer is doing
LexicalSearch ==
    /\ \E keyword \in Keywords :
          ret' = [outcome |-> "found", keyword |-> keyword,
                  hits |-> lexical_search(keyword)]
    /\ UNCHANGED <<call, files, chunks, vectors, worker>>

NextStore ==
    \/ LexicalSearch
    \/ CommitEntry
    \/ ProcessPending
    \/ FetchNext
    \/ ChunkEntry
    \/ EmbedChunk
    \/ WriteChunks
    \/ MarkRefined
    \/ Cancel
    \/ Interrupt

SpecStore == InitStore /\ [][NextStore]_vars

----------------------------------------------------------------------------
(* Claims about the chunker, under SpecChunk *)

\* the text of a returned chunk: chunk_file wraps it in a CodeChunk
ChunkText(c) == IF call.op = "chunk_file" THEN c.content ELSE c

ProseCall ==
    \/ call.op \in {"_recursive_split", "_hard_split"}
    \/ call.op = "chunk_file" /\ call.filename = "md"

\* c occurs character for character inside text
IsSlice(c, text) ==
    \E s \in 0..Len(text) :
        /\ s + Len(c) <= Len(text)
        /\ SubSeq(text, s + 1, s + Len(c)) = c

\* C1: whenever the prose splitter (through chunk_file, _recursive_split or
\* _hard_split) returns, no chunk is longer than max_size characters. The
\* exception the claim allows for is never needed.
C1_ChunksWithinMaxSize ==
    (ProseCall /\ ret.outcome = "returned")
        => \A i \in 1..Len(ret.chunks) : Len(ChunkText(ret.chunks[i])) <= call.max_size

\* C1 witness: "aaa a" split at spaces with max_size 2: the long word went down
\* to the character window (a chunk of exactly max_size characters and its
\* rest), the short word was packed.
C1_Witness ==
    /\ call.op = "_recursive_split"
    /\ call.seps = << <<" ">> >>
    /\ call.text = <<"a", "a", "a", " ", "a">>
    /\ call.max_size = 2
    /\ call.overlap = 0
    /\ ret = Returned(<< <<"a", "a">>, <<"a">>, <<"a">> >>)

\* C2 (as claimed): every chunk the prose splitter returns occurs character
\* for character inside the input text.
C2_ChunksAreSlices ==
    (ProseCall /\ ret.outcome = "returned")
        => \A i \in 1..Len(ret.chunks) : IsSlice(ChunkText(ret.chunks[i]), call.text)

\* C6 (as claimed): chunk_file always returns; it never raises.
C6_ChunkFileNeverRaises ==
    call.op = "chunk_file" => ret.outcome = "returned"

----------------------------------------------------------------------------
(* Claims about search, under SpecSearch *)

SearchReturned == call.op = "search" /\ ret.outcome = "returned"

\* the path through the hybrid SELECT
HybridPath ==
    /\ call.op = "search"
    /\ call.db_exists
    /\ call.reply = "vector"
    /\ ~call.vec_error
    /\ ~call.fts_error

\* the path through _keyword_search_only
FallbackPath ==
    /\ call.op = "search"
    /\ call.db_exists
    /\ call.reply # "vector"

\* sum over the two lists of 1/(60 + rank), 0 for a list the item is absent
\* from, as the fraction <<numerator, denominator>>
FusedSum(vr, fr) ==
    IF vr # 0 /\ fr # 0 THEN <<(60 + vr) + (60 + fr), (60 + vr) * (60 + fr)>>
    ELSE IF vr # 0 THEN <<1, 60 + vr>>
    ELSE IF fr # 0 THEN <<1, 60 + fr>>
    ELSE <<0, 1>>

ExpectedSum(id) == FusedSum(RankIn(call.vec_matches, id), RankIn(call.fts_matches, id))

\* C3 (as claimed): the score of every returned result is exactly the sum
\* of 1/(60 + rank) over the lists the item appears in (scores are in units
\* of 0.0001).
C3_ScoreIsExactSum ==
    SearchReturned =>
        \A i \in 1..Len(ret.rows) :
            ret.rows[i].score * ExpectedSum(ret.rows[i].id)[2]
                = 10000 * ExpectedSum(ret.rows[i].id)[1]

\* C3 (amended): on the hybrid path the score of every result is that sum
\* rounded to four decimal places (at most half a unit of 0.0001 away from it);
\* on the lexical-only fallback the score of every result is 0.0.
C3_ScoreIsRoundedSum ==
    /\ HybridPath =>
          \A i \in 1..Len(ret.rows) :
              LET e == ExpectedSum(ret.rows[i].id)
                  d == 10000 * e[1] - ret.rows[i].score * e[2]
              IN  /\ 2 * d <= e[2]
                  /\ 2 * (0 - d) <= e[2]
    /\ (FallbackPath /\ ret.outcome = "returned") =>
          \A i \in 1..Len(ret.rows) : ret.rows[i].score = 0

\* C3 witness: a hybrid result at vector-rank 1 and keyword-rank 1 scoring
\* 0.0328, followed by one present only in the keyword list scoring 0.0161.
C3_Witness ==
    /\ HybridPath
    /\ Len(ret.rows) >= 2
    /\ RankIn(call.vec_matches, ret.rows[1].id) = 1
    /\ RankIn(call.fts_matches, ret.rows[1].id) = 1
    /\ ret.rows[1].score = 328
    /\ RankIn(call.vec_matches, ret.rows[2].id) = 0
    /\ RankIn(call.fts_matches, ret.rows[2].id) = 2
    /\ ret.rows[2].score = 161

\* the vector rank as a sort key: an item outside the vector list sorts last
VectorKey(id) ==
    IF RankIn(call.vec_matches, id) = 0
    THEN TopK + 1
    ELSE RankIn(call.vec_matches, id)

\* C4 (as claimed): results with equal fused scores come in vector-rank order.
C4_TiesInVectorRankOrder ==
    HybridPath =>
        \A i, j \in 1..Len(ret.rows) :
            (i < j /\ FracEq(RrfScore(call.vec_matches, call.fts_matches, ret.rows[i].id),
                             RrfScore(call.vec_matches, call.fts_matches, ret.rows[j].id)))
                => VectorKey(ret.rows[i].id) <= VectorKey(ret.rows[j].id)

\* C5 (as claimed): when the query embedding cannot be obtained, search returns
\* the keyword results (the first `limit` of the keyword list) and raises nothing.
C5_FallbackReturnsKeywordResults ==
    FallbackPath =>
        /\ ret.outcome = "returned"
        /\ Len(ret.rows) = Min(call.limit, Len(call.fts_matches))
        /\ \A i \in 1..Len(ret.rows) : ret.rows[i].id = call.fts_matches[i]

----------------------------------------------------------------------------
(* Claims about the cartridge and the Refinery, under SpecStore *)

\* a stored or routed chunk without its embedding flag and ordinal
Slice3(c) == [content |-> c.content, start_line |-> c.start_line, end_line |-> c.end_line]

StoredSlices(list) == [i \in 1..Len(list) |-> Slice3(list[i])]

\* the chunk set of the entry's current content: what the Chunk Router cuts, or
\* the whole file as one chunk where chunking fails
ExpectedSlices(p, entry) ==
    IF entry = NoEntry \/ entry.content.kind = "blob" THEN <<>>
    ELSE IF RoutedChunks(p, entry.content).outcome = "returned"
         THEN StoredSlices(RoutedChunks(p, entry.content).chunks)
         ELSE << [content |-> entry.content.text, start_line |-> 0, end_line |-> 0] >>

\* the step is commit_entry(p, content)
CommitStep(p, content) ==
    /\ worker.pc = "idle"
    /\ worker' = worker
    /\ call' = [op |-> "commit_entry", vfs_path |-> p, content |-> content]

\* C7: every step leaves the chunks and vectors stored for an entry as they
\* were, or replaces them in one step by the complete chunk set of the entry's
\* content with one vector for each embedded chunk: no state shows a partial or
\* mixed set, whatever cancellation or interruption happens around the write.
C7_WriteIsAtomic ==
    [][\A p \in PathSet :
          \/ chunks'[p] = chunks[p] /\ vectors'[p] = vectors[p]
          \/ /\ worker.pc = "write" /\ worker.current = p
             /\ StoredSlices(chunks'[p]) = ExpectedSlices(p, files[p])
             /\ vectors'[p] = {i \in 1..Len(chunks'[p]) : ~chunks'[p][i].embedding_failed}
      ]_vars

\* C7 witness: a write of several chunks, some embedded and some not, has just
\* replaced the entry's chunk set while a cancellation was pending.
C7_Witness ==
    /\ worker.pc = "status"
    /\ worker.cancel
    /\ Len(chunks[worker.current]) >= 2
    /\ vectors[worker.current] # {}
    /\ \E i \in 1..Len(chunks[worker.current]) :
          chunks[worker.current][i].embedding_failed

\* C8: a commit_entry of a path whose stored hash equals the hash of the
\* committed content changes neither the status nor the chunk set of the entry.
C8_UnchangedRecommitIsNoOp ==
    [][\A p \in PathSet, content \in Contents :
          (/\ CommitStep(p, content)
           /\ files[p] # NoEntry
           /\ files[p].hash = Hash(content))
          => /\ files'[p].status = files[p].status
             /\ chunks'[p] = chunks[p]
             /\ vectors'[p] = vectors[p]
      ]_vars

\* C8 witness: an unchanged re-commit of a REFINED entry that has chunks, while
\* the other entry is in ERROR.
C8_Witness ==
    /\ call.op = "commit_entry"
    /\ ret.outcome = "unchanged"
    /\ files[call.vfs_path].status = "REFINED"
    /\ Len(chunks[call.vfs_path]) > 0
    /\ \E q \in PathSet : files[q].status = "ERROR"

\* the Refinery's pass over entry p ends with this step
PassEnds(p) ==
    /\ worker.current = p
    /\ worker.pc \in {"chunk", "status"}
    /\ worker'.pc = "fetch"

\* C9 (as claimed): a commit_entry with changed content resets the status to
\* RAW, and when a Refinery pass over an entry that held chunks of an earlier
\* content ends, the entry's chunk set is exactly the chunk set of its new content.
C9_RecommitIsSuperseded ==
    [][/\ \A p \in PathSet, content \in Contents :
             (/\ CommitStep(p, content)
              /\ files[p] # NoEntry
              /\ files[p].content.kind = content.kind
              /\ files[p].content # content)
             => files'[p].status = "RAW"
       /\ \A p \in PathSet :
             (PassEnds(p) /\ Len(chunks[p]) > 0)
             => StoredSlices(chunks'[p]) = ExpectedSlices(p, files'[p])
      ]_vars

----------------------------------------------------------------------------
(* Claims about a Refinery run that is cancelled or interrupted *)

SeqSet(list) == {list[i] : i \in 1..Len(list)}

\* the entries list_pending returns when asked for all of them
PendingSet == SeqSet(list_pending("RAW", Len(VPaths)))

\* the entries that were RAW when the running batch was fetched
RawAtStart == {p \in PathSet : files[p].status = "RAW"} \cup SeqSet(worker.done)

\* the entries the running batch is finished with as far as chunks go: marked,
\* or chunk set written and the status not updated yet
ChunkSetCommitted ==
    SeqSet(worker.done)
        \cup (IF worker.pc = "status" THEN {worker.current} ELSE {})

\* the run stops before its batch is done, by cancel() or by an interruption
RunCutShort ==
    /\ worker.pc # "idle"
    /\ worker'.pc = "idle"
    /\ ret'.outcome \in {"cancelled", "interrupted"}

\* no chunk of the entry is stored twice: its chunk set is the one of its content
NoDuplicateChunks(p, entry, list) ==
    /\ \A i \in 1..Len(list) : list[i].ordinal = i
    /\ entry.status = "REFINED" => StoredSlices(list) = ExpectedSlices(p, entry)

----------------------------------------------------------------------------
(* Claims about embedding failures *)

\* the step is an embedding request that failed or timed out
EmbedFails ==
    /\ worker.pc = "embed"
    /\ ~worker.cancel
    /\ worker.next <= Len(worker.built)
    /\ worker' # worker
    /\ worker'.pc # "idle"
    /\ ~worker'.cancel
    /\ worker'.built[worker.next].embedding_failed

\* the step writes an entry none of whose chunks could be embedded
WritesUnembedded ==
    /\ worker.pc = "write"
    /\ worker'.pc \notin {"write", "idle"}
    /\ \A i \in 1..Len(worker.built) : worker.built[i].embedding_failed

\* the step is a reader's lexical search
ReaderSearches ==
    /\ ret' # ret
    /\ ret' # Idle
    /\ ret'.outcome = "found"

----------------------------------------------------------------------------
(* Claims about one process_pending invocation *)

\* the step starts a process_pending invocation
BatchStarts ==
    /\ worker.pc = "idle"
    /\ worker'.pc = "fetch"

BatchCompletes ==
    /\ worker.pc = "fetch"
    /\ worker'.pc = "idle"
    /\ ret'.outcome = "completed"

TakenSoFar ==
    Len(worker.done)
        + (IF worker.pc \in {"chunk", "embed", "write", "status"} THEN 1 ELSE 0)

\* steps the worker can spend on one entry, at most
EntrySteps == 4 * MaxLen

\* what the running invocation still has to do: entries left, then steps left
\* on the entry in hand
WorkLeft(w) ==
    IF w.pc = "idle" THEN 0
    ELSE Len(w.queue) * EntrySteps
            + (CASE w.pc = "fetch" -> 1
                 [] w.pc = "chunk" -> EntrySteps
                 [] w.pc = "embed" -> EntrySteps - w.next
                 [] w.pc = "write" -> 3
                 [] w.pc = "status" -> 2)

\* C15: an invocation of process_pending(batch_size) takes at most batch_size
\* entries, however many are RAW, and it returns: every step of the worker
\* brings it closer to the end of the batch, and only cancel() leaves the work
\* left as it is, once.
C15_BatchIsBounded ==
    [][/\ worker'.pc # "idle" =>
             /\ call'.op = "process_pending"
             /\ Len(worker'.batch) <= call'.batch_size
             /\ TakenSoFar' + Len(worker'.queue) <= Len(worker'.batch)
             /\ TakenSoFar' <= call'.batch_size
             /\ Len(worker'.built) + 5 <= EntrySteps
       /\ (worker.pc # "idle" /\ worker' # worker) =>
             \/ WorkLeft(worker') < WorkLeft(worker)
             \/ /\ ~worker.cancel
                /\ worker' = [worker EXCEPT !.cancel = TRUE]
      ]_vars

\* C15 witness: process_pending(1) has taken one entry and has nothing left to
\* take while another entry is still RAW.
C15_Witness ==
    /\ worker.pc = "fetch"
    /\ call.op = "process_pending"
    /\ call.batch_size = 1
    /\ worker.done = <<"a.md">>
    /\ worker.queue = <<>>
    /\ files["b.py"].status = "RAW"

----------------------------------------------------------------------------
(* Claims about writers and readers of one cartridge *)

cartridge == <<files, chunks, vectors>>

\* the step changes nothing of the cartridge outside entry p
OnlyEntryChanges(p) ==
    \A q \in PathSet \ {p} :
        /\ files'[q] = files[q]
        /\ chunks'[q] = chunks[q]
        /\ vectors'[q] = vectors[q]

----------------------------------------------------------------------------
(* Claims about the order and size of search results, under SpecSearch *)

\* C17: the list search returns has at most limit results and is in
\* non-increasing order of score, of the reported score on every path and of the
\* fused score itself on the hybrid path.
C17_SortedAndLimited ==
    SearchReturned =>
        /\ Len(ret.rows) <= call.limit
        /\ \A i \in 1..(Len(ret.rows) - 1) :
              /\ ret.rows[i].score >= ret.rows[i + 1].score
              /\ HybridPath =>
                    ~FracLess(RrfScore(call.vec_matches, call.fts_matches, ret.rows[i].id),
                              RrfScore(call.vec_matches, call.fts_matches, ret.rows[i + 1].id))

\* C17 witness: a hybrid search with more candidates than limit returned limit
\* results, the first with a strictly higher score than the second.
C17_Witness ==
    /\ SearchReturned
    /\ HybridPath
    /\ call.limit >= 2
    /\ Cardinality(Candidates(call.vec_matches, call.fts_matches)) > call.limit
    /\ Len(ret.rows) = call.limit
    /\ ret.rows[1].score > ret.rows[2].score

----------------------------------------------------------------------------
(* Claims about packing and windows, under SpecChunk *)

\* greedy packing as claimed: pieces in input order, the buffer flushed exactly
\* when the buffer joined with the next piece would be longer than max_size
RECURSIVE GreedyFrom(_, _, _, _, _, _)
GreedyFrom(pieces, k, out, buffer, sep, max_size) ==
    IF k > Len(pieces)
    THEN (IF buffer = <<>> THEN out ELSE Append(out, buffer))
    ELSE LET joined == IF buffer = <<>> THEN pieces[k] ELSE buffer \o sep \o pieces[k]
         IN  IF Len(joined) > max_size
             THEN GreedyFrom(pieces, k + 1, Append(out, buffer), pieces[k], sep, max_size)
             ELSE GreedyFrom(pieces, k + 1, out, joined, sep, max_size)

\* a call of _recursive_split on the word tier alone, on a text longer than
\* max_size whose pieces are all non-empty and none longer than max_size
OneTierCall ==
    /\ call.op = "_recursive_split"
    /\ call.seps = << <<" ">> >>
    /\ Len(call.text) > call.max_size
    /\ \A k \in 1..Len(StrSplit(call.text, <<" ">>)) :
          /\ Len(StrSplit(call.text, <<" ">>)[k]) > 0
          /\ Len(StrSplit(call.text, <<" ">>)[k]) <= call.max_size

\* C18 (as claimed): within one separator tier the chunks are the greedy
\* packing of the pieces: in input order, no buffer longer than max_size,
\* flushed exactly when the next piece would make it overflow.
C18_GreedyPacking ==
    OneTierCall =>
        ret = Returned(GreedyFrom(StrSplit(call.text, <<" ">>), 1, <<>>, <<>>,
                                  <<" ">>, call.max_size))

\* the text the windows spell when each window's first `overlap` characters,
\* shared with the window before it, are dropped
RECURSIVE Unoverlapped(_, _, _)
Unoverlapped(windows, k, overlap) ==
    IF k > Len(windows) THEN <<>>
    ELSE IF k = 1 THEN windows[1] \o Unoverlapped(windows, 2, overlap)
    ELSE SubSeq(windows[k], overlap + 1, Len(windows[k]))
            \o Unoverlapped(windows, k + 1, overlap)

\* windows of at most max_size characters, each sharing its first `overlap`
\* characters with the end of the one before, that cover the piece end to end
IsSlidingWindow(windows, piece, max_size, overlap) ==
    /\ \A k \in 1..Len(windows) : Len(windows[k]) <= max_size
    /\ \A k \in 2..Len(windows) :
          /\ Len(windows[k]) >= overlap
          /\ SubSeq(windows[k], 1, overlap)
                = SubSeq(windows[k - 1], Len(windows[k - 1]) - overlap + 1,
                         Len(windows[k - 1]))
    /\ Unoverlapped(windows, 1, overlap) = piece

\* a prose call of the router on a text longer than max_size that no separator
\* tier can cut, with an overlap smaller than the window
UncuttableCall ==
    /\ \/ call.op = "chunk_file" /\ call.filename = "md"
       \/ call.op = "_recursive_split" /\ call.seps = separators
    /\ Len(call.text) > call.max_size
    /\ call.overlap < call.max_size
    /\ \A k \in 1..Len(call.text) : call.text[k] = "a"

\* C19 (as claimed): a piece longer than max_size goes down the separator tiers,
\* and when no separator is left it is cut by a sliding window: every window has
\* at most max_size characters, consecutive windows share overlap characters,
\* and the windows cover the piece from its first to its last character.
C19_WindowsCoverPiece ==
    UncuttableCall =>
        /\ ret.outcome = "returned"
        /\ IsSlidingWindow([k \in 1..Len(ret.chunks) |-> ChunkText(ret.chunks[k])],
                           call.text, call.max_size, call.overlap)

----------------------------------------------------------------------------
(* Claims about chunk positions, under SpecChunk *)

\* the chunk's range read as lines: lines start_line..end_line of the text, which
\* hold the chunk's content
LineAddressed(c, text) ==
    /\ 1 <= c.start_line
    /\ c.start_line <= c.end_line
    /\ c.end_line <= Len(Lines(text))
    /\ IsSlice(c.content, Join(<<"\n">>, SubSeq(Lines(text), c.start_line, c.end_line)))

\* the chunk's range read as character offsets: text[start_line:end_line] is
\* the chunk's content
OffsetAddressed(c, text) ==
    /\ 0 <= c.start_line
    /\ c.start_line <= c.end_line
    /\ c.end_line <= Len(text)
    /\ Slice(text, c.start_line, c.end_line) = c.content

\* C20 (as claimed): every chunk chunk_file returns, structural or prose,
\* carries the start and end position (line or offset) of the slice of the file
\* it was taken from, and the chunks come in source order.
C20_ChunksArePositionAddressed ==
    (call.op = "chunk_file" /\ ret.outcome = "returned") =>
        /\ \A k \in 1..Len(ret.chunks) :
              \/ LineAddressed(ret.chunks[k], call.text)
              \/ OffsetAddressed(ret.chunks[k], call.text)
        /\ \A k \in 1..(Len(ret.chunks) - 1) :
              ret.chunks[k].start_line <= ret.chunks[k + 1].start_line

----------------------------------------------------------------------------
(* SearchEngineMS._extract_snippet *)

\* idx - 60, idx + 140 and content[:200]
SnippetBefore == 60

SnippetAfter == 140

SnippetHead == 200

\* str.lower(), over the characters of the model
Lower(text) == [i \in 1..Len(text) |-> IF text[i] = "A" THEN "a" ELSE text[i]]

\* str.split() without a separator: the runs of non-whitespace characters
RECURSIVE WordsFrom(_, _, _)
WordsFrom(text, i, word) ==
    IF i > Len(text) THEN (IF word = <<>> THEN <<>> ELSE << word >>)
    ELSE IF text[i] \in Whitespace
         THEN (IF word = <<>> THEN <<>> ELSE << word >>) \o WordsFrom(text, i + 1, <<>>)
         ELSE WordsFrom(text, i + 1, Append(word, text[i]))

Words(text) == WordsFrom(text, 1, <<>>)

\* the 0-based positions where sub occurs in text
Occurrences(text, sub) ==
    {i \in 0..(Len(text) - Len(sub)) : SubSeq(text, i + 1, i + Len(sub)) = sub}

\* str.find(sub): the lowest position, or -1
Find(text, sub) ==
    IF Occurrences(text, sub) = {} THEN -1
    ELSE CHOOSE i \in Occurrences(text, sub) : \A j \in Occurrences(text, sub) : i <= j

\* str.replace('\n', ' ')
ReplaceNewlines(text) == [i \in 1..Len(text) |-> IF text[i] = "\n" THEN " " ELSE text[i]]

Ellipsis == <<".", ".", ".">>

\* a snippet with the slice of the content it was cut from
Snippet(text, start, end) ==
    [outcome |-> "returned", snippet |-> text, window |-> <<start, end>>]

\* _extract_snippet(content, query)
_extract_snippet(content, query) ==
    LET lower_content == Lower(content)
        words == Words(Lower(query))
    IN  IF Len(words) = 0
        THEN [outcome |-> "IndexError"]     \* query.lower().split()[0]
        ELSE LET lower_query == words[1]
                 idx == Find(lower_content, lower_query)
             IN  IF idx = -1
                 THEN Snippet(ReplaceNewlines(Slice(content, 0, SnippetHead)) \o Ellipsis,
                              0, Min(SnippetHead, Len(content)))
                 ELSE LET start == IF idx - SnippetBefore > 0 THEN idx - SnippetBefore ELSE 0
                          end == Min(Len(content), idx + SnippetAfter)
                      IN  Snippet(Ellipsis \o ReplaceNewlines(Slice(content, start, end))
                                      \o Ellipsis,
                                  start, end)

\* n characters of filler
Pad(n) == [i \in 1..n |-> "x"]

\* lengths of filler around a match: none, up to a window edge, past it
PadLens ==
    {0, SnippetBefore, SnippetAfter, SnippetHead}
        \cup {n + k : n \in {SnippetBefore, SnippetAfter, SnippetHead}, k \in 1..PadSlack}

\* what stands in the middle of a content
Middles == {<<"a">>, <<"A">>, <<"b">>, <<"a", "\n", "b">>, <<"b", " ", "a">>, <<>>}

SnippetContents == {Pad(p) \o m \o Pad(q) : p \in PadLens, m \in Middles, q \in PadLens}

Queries == {<<>>, <<" ">>, <<"a">>, <<"A">>, <<"b">>, <<"a", " ", "b">>, <<"b", " ", "a">>}

InitSnippet ==
    /\ call = Idle
    /\ ret = Idle
    /\ StoreUnused

ExtractSnippet ==
    /\ call = Idle
    /\ UNCHANGED storeVars
    /\ \E content \in SnippetContents, query \in Queries :
          /\ call' = [op |-> "_extract_snippet", content |-> content, query |-> query]
          /\ ret' = _extract_snippet(content, query)

NextSnippet == ExtractSnippet

SpecSnippet == InitSnippet /\ [][NextSnippet]_vars

\* the query's keywords that occur in the content, by position of first match
KeywordMatches ==
    {Find(Lower(call.content), Words(Lower(call.query))[k]) :
        k \in 1..Len(Words(Lower(call.query)))} \ {-1}

\* C21 (as claimed): whenever a keyword of the query occurs in the content, a
\* snippet is returned and its window contains the position of the first match.
C21_SnippetHoldsFirstMatch ==
    (call.op = "_extract_snippet" /\ KeywordMatches # {}) =>
        /\ ret.outcome = "returned"
        /\ \A m \in KeywordMatches :
              (\A n \in KeywordMatches : m <= n)
              => (ret.window[1] <= m /\ m < ret.window[2])

----------------------------------------------------------------------------
(* NeuralServiceMS: get_embedding and process_parallel *)

\* get_embedding(text) is called: nothing requested yet
CallGetEmbedding ==
    /\ call = Idle
    /\ call' = [op |-> "get_embedding"]
    /\ worker' = [pc |-> "post", requests |-> 0]
    /\ UNCHANGED <<ret, files, chunks, vectors>>

\* requests.post(f"{OLLAMA_API_URL}/embeddings", ..., timeout=30): one request
PostEmbedding ==
    /\ call.op = "get_embedding"
    /\ worker.pc = "post"
    /\ worker' = [pc |-> "await", requests |-> worker.requests + 1]
    /\ UNCHANGED <<call, ret, files, chunks, vectors>>

\* the request ends, with an answer, a timeout or a transport error, and
\* get_embedding returns
ReturnEmbedding ==
    /\ call.op = "get_embedding"
    /\ worker.pc = "await"
    /\ \E reply \in EmbedReplies :
          ret' = [outcome |-> "returned", reply |-> reply,
                  value |-> get_embedding(reply), requests |-> worker.requests]
    /\ worker' = [pc |-> "done", requests |-> worker.requests]
    /\ UNCHANGED <<call, files, chunks, vectors>>

\* the items of a process_parallel call: 1..n
ItemLists == {[i \in 1..n |-> i] : n \in 0..MaxItems}

\* worker_func(item) either returns a result or raises
WorkerOutcomes == {"ok", "raises"}

\* process_parallel(items, worker_func) is called: one future per item is
\* submitted to the pool; results = []
CallProcessParallel ==
    /\ call = Idle
    /\ \E items \in ItemLists :
       \E outcomes \in [1..Len(items) -> WorkerOutcomes] :
          /\ call' = [op |-> "process_parallel", items |-> items, outcomes |-> outcomes]
          /\ worker' = [pc |-> "as_completed", futures |-> 1..Len(items), results |-> <<>>]
    /\ UNCHANGED <<ret, files, chunks, vectors>>

\* for future in as_completed(futures): the next future to finish, whichever it
\* is; its result is appended, or its exception logged
FutureCompletes ==
    /\ call.op = "process_parallel"
    /\ worker.pc = "as_completed"
    /\ \E future \in worker.futures :
          worker' = [worker EXCEPT
                        !.futures = worker.futures \ {future},
                        !.results = IF call.outcomes[future] = "ok"
                                    THEN Append(worker.results,
                                                [item |-> call.items[future]])
                                    ELSE worker.results]
    /\ UNCHANGED <<call, ret, files, chunks, vectors>>

\* return results
ReturnResults ==
    /\ call.op = "process_parallel"
    /\ worker.pc = "as_completed"
    /\ worker.futures = {}
    /\ ret' = [outcome |-> "returned", results |-> worker.results]
    /\ worker' = [worker EXCEPT !.pc = "done"]
    /\ UNCHANGED <<call, files, chunks, vectors>>

InitNeural ==
    /\ call = Idle
    /\ ret = Idle
    /\ StoreUnused

NextNeural ==
    \/ CallGetEmbedding
    \/ PostEmbedding
    \/ ReturnEmbedding
    \/ CallProcessParallel
    \/ FutureCompletes
    \/ ReturnResults

SpecNeural == InitNeural /\ [][NextNeural]_vars

\* C22: a call of get_embedding issues one request, never more, and returns:
\* the embedding when the request succeeds, and None, which the caller can
\* tell from an embedding, on a timeout, a transport error, a non-success
\* status or an answer without an embedding; it never raises.
C22_BoundedVisibleFailure ==
    /\ (call.op = "get_embedding" /\ worker.pc # "done") => worker.requests <= 1
    /\ (call.op = "get_embedding" /\ worker.pc = "done") =>
          /\ worker.requests = 1
          /\ ret.outcome = "returned"
          /\ ret.value = "None" <=> ret.reply # "vector"

\* C22 witness: a request timed out and get_embedding has returned None.
C22_Witness ==
    /\ call.op = "get_embedding"
    /\ worker.pc = "done"
    /\ ret.reply = "timeout"
    /\ ret.value = "None"

\* C30 (as claimed): process_parallel returns one result for each input item,
\* in the order of the items.
C30_OneResultPerItemInOrder ==
    (call.op = "process_parallel" /\ worker.pc = "done") =>
        /\ Len(ret.results) = Len(call.items)
        /\ \A i \in 1..Len(ret.results) : ret.results[i].item = call.items[i]

\* ---------------------------------------------------------------------------
\* Container failures seen by search
\* ---------------------------------------------------------------------------

\* the container the search was pointed at could not be used: the file is not
\* there, or a table the query needs cannot be read
ContainerUnusable ==
    /\ call # Idle
    /\ call.op = "search"
    /\ \/ ~call.db_exists
       \/ call.vec_error
       \/ call.fts_error

\* C23: when the cartridge container is missing, unreadable or corrupt, search
\* is aborted with an error surfaced to the caller; it never returns a value
\* the caller can take for a successful (possibly empty) result.
C23_ContainerFailureSurfaced ==
    ContainerUnusable => ret.outcome # "returned"

\* ---------------------------------------------------------------------------
\* ScoutMS: scan(root, depth_limit) -> Plan, and the commit that follows it
\* ---------------------------------------------------------------------------

\* the deepest crawl the model asks for
MaxDepth == 1

ScanRoots == {"fs", "web"}

\* what lies under a root: the path, what its bytes look like, how many hops
\* (or directory levels) it is from the root, and whether its name is in the
\* exclusion set
Leaf(path, bytes, depth, excluded) ==
    [path |-> path, bytes |-> bytes, depth |-> depth, excluded |-> excluded]

SourceLeaves(root) ==
    IF root = "fs"
    THEN << Leaf("a.md", "text", 0, FALSE), Leaf(".git", "binary", 0, TRUE),
            Leaf("b.py", "text", 1, FALSE), Leaf("big.bin", "binary", 1, FALSE),
            Leaf("locked", "unreadable", 2, FALSE) >>
    ELSE << Leaf("a.md", "text", 0, FALSE), Leaf("b.py", "text", 1, FALSE),
            Leaf("far", "text", 2, FALSE) >>

\* a leaf of the Plan: binaries are excluded by default, an unreadable path is
\* recorded with an error marker
PlanLeaf(l) ==
    [path |-> l.path,
     kind |-> IF l.bytes = "unreadable" THEN "error" ELSE l.bytes,
     include |-> l.bytes = "text"]

Listed(root, depth_limit, l) ==
    /\ ~l.excluded
    /\ root = "web" => l.depth <= depth_limit

RECURSIVE PlanFrom(_, _, _)
PlanFrom(root, depth_limit, leaves) ==
    IF leaves = <<>> THEN <<>>
    ELSE (IF Listed(root, depth_limit, Head(leaves))
          THEN <<PlanLeaf(Head(leaves))>> ELSE <<>>)
         \o PlanFrom(root, depth_limit, Tail(leaves))

\* scan(root, depth_limit): the Plan
scan(root, depth_limit) == PlanFrom(root, depth_limit, SourceLeaves(root))

\* a scan that commits the leaves it includes by default
entries_after_scan_committing(plan) ==
    [p \in PathSet |->
        IF /\ files[p] = NoEntry
           /\ \E i \in 1..Len(plan) : plan[i].path = p /\ plan[i].include
        THEN NewEntry([kind |-> "text", text |-> OneLine])
        ELSE files[p]]

\* the entries of the cartridge once a scan has returned: the scan wrote none
entries_after_scan(plan) == files

\* the operator scans a root; the Plan is handed back, the cartridge is not touched
Scan ==
    /\ \E root \in ScanRoots, depth_limit \in 0..MaxDepth :
          /\ call' = [op |-> "scan", root |-> root, depth_limit |-> depth_limit]
          /\ ret' = [outcome |-> "plan", plan |-> scan(root, depth_limit)]
          /\ files' = entries_after_scan(scan(root, depth_limit))
    /\ UNCHANGED <<chunks, vectors, worker>>

NextScan ==
    \/ Scan
    \/ CommitEntry

SpecScan == InitStore /\ [][NextScan]_vars

TreePaths == <<".git", "m", "x", "x/x", "x/y">>

TreePathSet == {TreePaths[i] : i \in 1..Len(TreePaths)}

DEFAULT_EXCLUDES == {".git"}

\* the directory a path lies in; "" is the root
Parent(p) == IF p \in {"x/x", "x/y"} THEN "x" ELSE ""

\* dst / src.name, where shutil.copy2 writes when dst is a directory
Inside(dir, p) == IF dir = "x" /\ p \in {"x", "x/x"} THEN "x/x" ELSE "x/y"

\* what a path holds: nothing, a directory, or a file with its bytes
FileBytes == {"v1", "v2"}

\* the directory trees: only x may be a directory, and a path exists only
\* inside an existing directory
Trees ==
    {t \in [TreePathSet -> {"absent", "dir"} \cup FileBytes] :
        /\ \A p \in TreePathSet : t[p] = "dir" => p = "x"
        /\ \A p \in TreePathSet :
              (t[p] # "absent" /\ Parent(p) # "") => t[Parent(p)] = "dir"}

\* _is_excluded: some part of the relative path is in the exclusion list
_is_excluded(p) == p \in DEFAULT_EXCLUDES \/ Parent(p) \in DEFAULT_EXCLUDES

\* _scan_files: the files that are not excluded (each with its hash, which
\* differs exactly when the bytes differ)
_scan_files(t) == {p \in TreePathSet : t[p] \in FileBytes /\ ~_is_excluded(p)}

\* sorted(list(paths))
SortedPaths(paths) == SelectSeq(TreePaths, LAMBDA p : p \in paths)

\* get_diff()
get_diff(live, sandbox) ==
    [added |-> SortedPaths(_scan_files(sandbox) \ _scan_files(live)),
     modified |-> SortedPaths({p \in _scan_files(sandbox) \cap _scan_files(live) :
                                  sandbox[p] # live[p]}),
     deleted |-> SortedPaths(_scan_files(live) \ _scan_files(sandbox))]

\* _mirror_tree: a copy that skips the excluded names
_mirror_tree(src) ==
    [p \in TreePathSet |-> IF _is_excluded(p) THEN "absent" ELSE src[p]]

\* dst.parent.mkdir(parents=True, exist_ok=True) raises when the parent is a file
MkdirRaises(live, p) == Parent(p) # "" /\ live[Parent(p)] \in FileBytes

\* dst.parent.mkdir(...); shutil.copy2(src, dst): into dst when dst is a directory
CopyInto(live, sandbox, p) ==
    LET made == IF Parent(p) = "" THEN live
                ELSE [live EXCEPT ![Parent(p)] = "dir"]
    IN  IF made[p] = "dir"
        THEN [made EXCEPT ![Inside(p, p)] = sandbox[p]]
        ELSE [made EXCEPT ![p] = sandbox[p]]

InitSandbox ==
    /\ call = Idle
    /\ ret = Idle
    /\ chunks = <<>>
    /\ vectors = <<>>
    /\ worker = [pc |-> "idle", todo |-> <<>>]
    /\ \E live \in Trees :
          files = [live |-> live, sandbox |-> _mirror_tree(live)]

\* somebody works in the sandbox: one path is written, made or removed
EditSandbox ==
    /\ worker.pc = "idle"
    /\ \E p \in TreePathSet, v \in {"absent", "dir"} \cup FileBytes :
          /\ [files.sandbox EXCEPT ![p] = v] \in Trees
          /\ files' = [files EXCEPT !.sandbox[p] = v]
    /\ call' = [op |-> "edit"]
    /\ ret' = Idle
    /\ UNCHANGED <<chunks, vectors, worker>>

GetDiff ==
    /\ worker.pc = "idle"
    /\ call' = [op |-> "get_diff"]
    /\ ret' = [outcome |-> "returned", diff |-> get_diff(files.live, files.sandbox)]
    /\ UNCHANGED <<files, chunks, vectors, worker>>

\* the phase that follows: deletions once the copies are done, then the return
AfterCopies(todo, diff) ==
    IF todo # <<>> THEN [pc |-> "copy", todo |-> todo]
    ELSE IF diff.deleted # <<>> THEN [pc |-> "delete", todo |-> diff.deleted]
    ELSE [pc |-> "return", todo |-> <<>>]

AfterDeletes(todo) ==
    IF todo # <<>> THEN [pc |-> "delete", todo |-> todo]
    ELSE [pc |-> "return", todo |-> <<>>]

\* promote_changes(): diff = self.get_diff()
PromoteChanges ==
    /\ worker.pc = "idle"
    /\ LET diff == get_diff(files.live, files.sandbox)
       IN  /\ call' = [op |-> "promote_changes", live |-> files.live, diff |-> diff]
           /\ worker' = AfterCopies(diff.added \o diff.modified, diff)
    /\ ret' = Idle
    /\ UNCHANGED <<files, chunks, vectors>>

\* one turn of the first loop; the mkdir or the copy may raise (OSError)
CopyNext ==
    /\ worker.pc = "copy"
    /\ LET p == Head(worker.todo)
       IN  \E os_error \in BOOLEAN :
              IF os_error \/ MkdirRaises(files.live, p)
              THEN /\ ret' = [outcome |-> "raised"]
                   /\ worker' = [pc |-> "idle", todo |-> <<>>]
                   /\ files' = files
              ELSE /\ files' = [files EXCEPT
                                   !.live = CopyInto(files.live, files.sandbox, p)]
                   /\ worker' = AfterCopies(Tail(worker.todo), call.diff)
                   /\ ret' = ret
    /\ UNCHANGED <<call, chunks, vectors>>

\* one turn of the second loop: if target.exists(): os.remove(target)
DeleteNext ==
    /\ worker.pc = "delete"
    /\ LET target == Head(worker.todo)
       IN  IF files.live[target] = "absent"
           THEN /\ worker' = AfterDeletes(Tail(worker.todo))
                /\ UNCHANGED <<files, ret>>
           ELSE \E os_error \in BOOLEAN :
                   IF os_error \/ files.live[target] = "dir"
                   THEN /\ ret' = [outcome |-> "raised"]
                        /\ worker' = [pc |-> "idle", todo |-> <<>>]
                        /\ files' = files
                   ELSE /\ files' = [files EXCEPT !.live[target] = "absent"]
                        /\ worker' = AfterDeletes(Tail(worker.todo))
                        /\ ret' = ret
    /\ UNCHANGED <<call, chunks, vectors>>

\* return len(diff['added']), len(diff['modified']), len(diff['deleted'])
PromoteReturns ==
    /\ worker.pc = "return"
    /\ ret' = [outcome |-> "returned",
               counts |-> <<Len(call.diff.added), Len(call.diff.modified),
                            Len(call.diff.deleted)>>]
    /\ worker' = [pc |-> "idle", todo |-> <<>>]
    /\ UNCHANGED <<call, files, chunks, vectors>>

NextSandbox ==
    \/ EditSandbox
    \/ GetDiff
    \/ PromoteChanges
    \/ CopyNext
    \/ DeleteNext
    \/ PromoteReturns

SpecSandbox == InitSandbox /\ [][NextSandbox]_vars

NoDiff == [added |-> <<>>, modified |-> <<>>, deleted |-> <<>>]

PromoteCompleted ==
    /\ call.op = "promote_changes"
    /\ ret # Idle
    /\ ret.outcome = "returned"

\* C25: once promote_changes has completed, the live project equals the
\* sandbox on every file that is not excluded, so a get_diff called right
\* afterwards reports nothing added, modified or deleted.
C25_PromoteLeavesNoDiff ==
    PromoteCompleted =>
        /\ get_diff(files.live, files.sandbox) = NoDiff
        /\ \A p \in TreePathSet :
              (/\ ~_is_excluded(p)
               /\ files.live[p] \in FileBytes \/ files.sandbox[p] \in FileBytes) =>
                  files.live[p] = files.sandbox[p]

PromoteFailed ==
    /\ call.op = "promote_changes"
    /\ ret # Idle
    /\ ret.outcome = "raised"

\* C26: promotion is atomic: when promote_changes fails part-way (a copy or
\* a delete raises), the live project is exactly what it was before the call.
C26_PromoteIsAtomic ==
    PromoteFailed => files.live = call.live

\* ---------------------------------------------------------------------------
\* CognitiveMemoryMS: working memory and its flush to long-term memory
\* ---------------------------------------------------------------------------

\* number of turns before summarizing to long-term memory
FLUSH_THRESHOLD == 5

\* the most entries the model adds between two flushes
MaxEntries == 6

\* the most lines the log file grows to when its rotation keeps failing
MaxLog == 7

Roles == {"user", "assistant"}

\* config.get("summarizer_func"), config.get("long_term_ingest_func")
Collaborators == {"None", "func"}

\* what the summarizer does when called: returns a text, returns something
\* that is not a text (summary[:50] then raises inside the try), or raises
SummarizerOutcomes == {"summary", "None", "raises"}

IngestorOutcomes == {"returns", "raises"}

\* _rotate_log_file: the rename to the archive name leaves no log file behind,
\* or raises OSError
RotateOutcomes == {"renamed", "raises"}

Flushed(memory, cleared, summarized, ingested) ==
    [working_memory |-> memory, cleared |-> cleared,
     summarized |-> summarized, ingested |-> ingested]

\* a flush that clears working memory although the ingestion failed
_flush_clearing_on_ingest_failure(memory, summarizer, ingestor, s_out, i_out) ==
    IF summarizer = "None" \/ ingestor = "None"
    THEN Flushed(memory, FALSE, FALSE, <<>>)
    ELSE IF s_out # "summary"
    THEN Flushed(memory, FALSE, TRUE, <<>>)
    ELSE IF i_out = "raises"
    THEN Flushed(<<>>, TRUE, TRUE, <<>>)
    ELSE Flushed(<<>>, TRUE, TRUE,
                 <<[summary |-> memory, original_entry_count |-> Len(memory)]>>)

\* _flush_to_long_term(): skip without both collaborators; return when the
\* summarizer or the ingestor fails; else clear working memory
_flush_to_long_term(memory, summarizer, ingestor, s_out, i_out) ==
    IF summarizer = "None" \/ ingestor = "None"
    THEN Flushed(memory, FALSE, FALSE, <<>>)
    ELSE IF s_out # "summary"
    THEN Flushed(memory, FALSE, TRUE, <<>>)
    ELSE IF i_out = "raises"
    THEN Flushed(memory, FALSE, TRUE, <<>>)
    ELSE Flushed(<<>>, TRUE, TRUE,
                 <<[summary |-> memory, original_entry_count |-> Len(memory)]>>)

\* commit_turn(): flush when working memory has reached the threshold
commit_turn(memory, summarizer, ingestor, s_out, i_out) ==
    IF Len(memory) >= FLUSH_THRESHOLD
    THEN _flush_to_long_term(memory, summarizer, ingestor, s_out, i_out)
    ELSE Flushed(memory, FALSE, FALSE, <<>>)

\* CognitiveMemoryMS(config), with no memory file on disk
InitMemory ==
    /\ call = Idle
    /\ ret = Idle
    /\ chunks = <<>>
    /\ vectors = <<>>
    /\ files = [log |-> <<>>]
    /\ \E summarizer \in Collaborators, ingestor \in Collaborators :
          worker = [summarizer |-> summarizer, ingestor |-> ingestor,
                    working_memory |-> <<>>]

\* add_entry(role, content): appended to working memory and to the log file
AddEntry ==
    /\ Len(worker.working_memory) < MaxEntries
    /\ Len(files.log) < MaxLog
    /\ \E role \in Roles :
          /\ call' = [op |-> "add_entry", role |-> role]
          /\ worker' = [worker EXCEPT !.working_memory = Append(@, role)]
          /\ files' = [files EXCEPT !.log = Append(@, role)]
    /\ ret' = [outcome |-> "returned"]
    /\ UNCHANGED <<chunks, vectors>>

\* commit_turn(), with what the collaborators and the rename do when called
CommitTurn ==
    /\ \E s_out \in SummarizerOutcomes, i_out \in IngestorOutcomes,
          r_out \in RotateOutcomes :
          LET flushed == commit_turn(worker.working_memory, worker.summarizer,
                                      worker.ingestor, s_out, i_out)
              rotates == flushed.cleared /\ files.log # <<>> /\ r_out = "renamed"
          IN  /\ call' = [op |-> "commit_turn", before |-> worker.working_memory,
                          s_out |-> s_out, i_out |-> i_out,
                          summarized |-> flushed.summarized,
                          ingested |-> flushed.ingested]
              /\ worker' = [worker EXCEPT !.working_memory = flushed.working_memory]
              /\ files' = IF rotates THEN [log |-> <<>>] ELSE files
              /\ ret' = [outcome |-> IF flushed.cleared /\ files.log # <<>>
                                        /\ r_out = "raises"
                                     THEN "OSError" ELSE "returned"]
    /\ UNCHANGED <<chunks, vectors>>

NextMemory ==
    \/ AddEntry
    \/ CommitTurn

SpecMemory == InitMemory /\ [][NextMemory]_vars

\* the conditions under which the flush goes through
FlushGoesThrough ==
    /\ Len(call.before) >= FLUSH_THRESHOLD
    /\ worker.summarizer = "func"
    /\ worker.ingestor = "func"
    /\ call.s_out = "summary"
    /\ call.i_out = "returns"

\* C27: commit_turn empties working memory exactly when it holds at least
\* FLUSH_THRESHOLD entries, a summarizer and an ingestor are configured, and
\* the summarization and the ingestion both succeed; in every other case
\* working memory is what it was and no entry is lost.
C27_FlushOnlyOnSuccess ==
    call.op = "commit_turn" =>
        IF FlushGoesThrough
        THEN /\ worker.working_memory = <<>>
             /\ call.ingested = <<[summary |-> call.before,
                                   original_entry_count |-> Len(call.before)]>>
        ELSE /\ worker.working_memory = call.before
             /\ call.ingested = <<>>
             /\ \E i \in 0..Len(files.log) :
                   SubSeq(files.log, i + 1, Len(files.log)) = call.before

\* a full working memory survived a commit_turn whose ingestor raised
C27_Witness ==
    /\ call.op = "commit_turn"
    /\ Len(call.before) >= FLUSH_THRESHOLD
    /\ worker.summarizer = "func"
    /\ worker.ingestor = "func"
    /\ call.s_out = "summary"
    /\ call.i_out = "raises"
    /\ worker.working_memory = call.before

\* ---------------------------------------------------------------------------
\* Termination and non-empty chunks of the prose splitter
\* ---------------------------------------------------------------------------

SplitterCall == call.op \in {"_recursive_split", "_hard_split"}

\* C28: the prose splitter terminates for every input: for any text, any
\* max_size >= 1 and any overlap >= 0, overlap >= max_size included,
\* _recursive_split and _hard_split come back after finitely many steps.
C28_SplitterTerminates ==
    SplitterCall => ret.outcome # "diverges"

\* C29: the recursive splitter never emits an empty chunk: for a non-empty
\* text, every chunk of the returned list has at least one character.
C29_NoEmptyChunk ==
    (/\ call.op = "_recursive_split"
     /\ call.text # <<>>
     /\ ret.outcome = "returned") =>
        \A i \in 1..Len(ret.chunks) : Len(ret.chunks[i]) >= 1

====
